---- MODULE Spec2Model ----
(***************************************************************************)
(* A model of mlflow.pyfunc (src/mlflow/pyfunc/__init__.py): the dynamic   *)
(* loader and its search-path injection, the exporter, the standalone      *)
(* loader generator and the batched prediction function of spark_udf.      *)
(***************************************************************************)
EXTENDS Integers, Sequences, FiniteSets, TLC

VARIABLES
    udf,          \* the last call of spark_udf's predict: its inputs, locals and outcome
    syspath,      \* sys.path of the process
    cwd,          \* the process's current working directory
    loadLog,      \* history: the load_pyfunc calls made so far, in order
    loaderSrc,    \* the last text returned by get_module_loader_src (its three slots)
    fs,           \* the destination paths of save_model: absent, or their contents
    saveLog,      \* history: the save_model calls made so far, in order
    cache,        \* per worker: SparkModelCache's archive -> loaded predictor
    loadCount,    \* per worker and archive: how often the predictor was loaded
    invoked,      \* per worker and archive: how often predict ran
    pc,           \* per thread of the concurrent loads: its position in line 173
    local,        \* per thread: the artifact it loads and the values it has computed
    interleaved   \* history: some thread read sys.path inside another's read-assign window

vars == << udf, syspath, cwd, loadLog, loaderSrc, fs, saveLog, cache, loadCount,
           invoked, pc, local, interleaved >>

(***************************************************************************)
(* Bounds of the model.                                                    *)
(***************************************************************************)
MaxCols == 4
NRows == 2
MaxLoads == 3
MaxSaves == 3
MaxInvocations == 3
NWorkers == 2
NThreads == 2

Range(s) == { s[i] : i \in DOMAIN s }

(***************************************************************************)
(* Tables (pandas.DataFrame), columns and values.                          *)
(*                                                                         *)
(* A value is [num, isStr]: num is the magnitude class of the number (w8,  *)
(* w16, w32, w64: the narrowest signed integer width that holds it; frac:  *)
(* not an integer; none: not a number) and isStr says that the value is a  *)
(* Python str. A column is [name, dtype, vals]; a table is a sequence of   *)
(* columns in column order.                                                *)
(***************************************************************************)
DTypes == { "int8", "uint8", "int16", "uint16", "int32", "int64", "float64", "object" }

\* The value classes a column of a given dtype can hold: the smallest and the
\* largest.
Low(d) == IF d = "object" THEN "none" ELSE "w8"

High(d) ==
    CASE d = "int8" -> "w8"
      [] d = "uint8" -> "w16"
      [] d = "int16" -> "w16"
      [] d = "uint16" -> "w32"
      [] d = "int32" -> "w32"
      [] d = "int64" -> "w64"
      [] d = "float64" -> "frac"
      [] OTHER -> "none"

Value(n, d) == [ num |-> n, isStr |-> (d = "object") ]

\* A column of dtype d named nm whose first row holds a value of class top and
\* whose other rows hold the dtype's smallest class.
Column(nm, d, top) ==
    [ name |-> nm, dtype |-> d,
      vals |-> [ r \in 1..NRows |-> Value(IF r = 1 THEN top ELSE Low(d), d) ] ]

\* The columns a predictor may return, by dtype and the class of the first
\* row's value: of every dtype a column that holds its largest class, and a
\* 64-bit column all of whose values are small.
ColumnChoices == { << d, "hi" >> : d \in DTypes } \cup { << "int64", "lo" >> }

TopOf(ch) == IF ch[2] = "lo" THEN Low(ch[1]) ELSE High(ch[1])

\* What a predictor returns: a table (a column is named by its position) or a
\* one-dimensional sequence of values.
TableOf(f) == [ tabular |-> TRUE,
                data |-> [ i \in DOMAIN f |-> Column(i, f[i][1], TopOf(f[i])) ] ]

SequenceOf(ch) == [ tabular |-> FALSE, data |-> << Column(0, ch[1], TopOf(ch)) >> ]

Kinds == { "int", "long", "float", "double", "string" }

(***************************************************************************)
(* spark_udf.predict: the coercion of the predictor's result (lines 288 to *)
(* 318).                                                                   *)
(***************************************************************************)
\* The dtypes of the two select_dtypes lists; np.int and np.long are the
\* platform's C long, int64.
\* The list of line 293 with np.int64 added to it.
IntegerDTypesWithInt64 == { "int8", "uint8", "int16", "uint16", "int32", "int64" }

IntegerDTypes == { "int8", "uint8", "int16", "uint16", "int32" }

LongDTypes == { "int8", "uint8", "int16", "uint16", "int64" }

\* np.number: every integer and floating dtype.
NumberDTypes == DTypes \ { "object" }

\* DataFrame.select_dtypes: the columns whose dtype is included, in column order.
SelectDtypes(frame, include) == SelectSeq(frame, LAMBDA c : c.dtype \in include)

\* The class of a number after a cast to dtype d: a cast to int32 wraps what
\* int32 cannot hold and truncates a fraction; a cast to a float keeps the class.
CastNum(n, d) ==
    IF d = "int32"
    THEN CASE n = "w64" -> "w32"
           [] n = "frac" -> "w8"
           [] OTHER -> n
    ELSE n

\* DataFrame.astype(d).
Astype(frame, d) ==
    [ i \in DOMAIN frame |->
        [ name |-> frame[i].name, dtype |-> d,
          vals |-> [ r \in DOMAIN frame[i].vals |->
                       [ num |-> CastNum(frame[i].vals[r].num, d), isStr |-> FALSE ] ] ] ]

\* DataFrame.applymap(str): every value becomes the str of itself.
ApplymapStr(frame) ==
    [ i \in DOMAIN frame |->
        [ name |-> frame[i].name, dtype |-> "object",
          vals |-> [ r \in DOMAIN frame[i].vals |->
                       [ num |-> frame[i].vals[r].num, isStr |-> TRUE ] ] ] ]

\* pandas.DataFrame(data=result) of a one-dimensional sequence: one column, named 0.
WrapFrame(data) == << [ name |-> 0, dtype |-> data[1].dtype, vals |-> data[1].vals ] >>

\* Lines 289 to 303: one if/elif chain, so a result that had to be wrapped is
\* neither filtered nor cast.
CoerceResult(kind, raw) ==
    IF ~raw.tabular THEN WrapFrame(raw.data)
    ELSE IF kind = "int" THEN Astype(SelectDtypes(raw.data, IntegerDTypes), "int32")
    ELSE IF kind = "long" THEN SelectDtypes(raw.data, LongDTypes)
    ELSE IF kind = "float" THEN Astype(SelectDtypes(raw.data, NumberDTypes), "float32")
    ELSE IF kind = "double" THEN Astype(SelectDtypes(raw.data, NumberDTypes), "float64")
    ELSE raw.data

\* Line 305: no column is left.
NoColumns(frame) == Len(frame) = 0

\* The dtype of one row of a table as DataFrame.iterrows gives it: the columns'
\* common dtype (numpy's promotion of the integer dtypes).
Width(d) ==
    CASE d \in { "int8", "uint8" } -> 8
      [] d \in { "int16", "uint16" } -> 16
      [] d \in { "int32", "float32" } -> 32
      [] OTHER -> 64

Unsigned(d) == d \in { "uint8", "uint16" }

Max(S) == CHOOSE x \in S : \A y \in S : y <= x

SignedOfWidth(w) ==
    CASE w = 8 -> "int8" [] w = 16 -> "int16" [] w = 32 -> "int32" [] OTHER -> "int64"

RowDType(frame) ==
    LET ds == { frame[i].dtype : i \in DOMAIN frame }
    IN  IF Cardinality(ds) = 1 THEN CHOOSE d \in ds : TRUE
        ELSE IF "object" \in ds THEN "object"
        ELSE IF "float64" \in ds THEN "float64"
        ELSE IF \A d \in ds : Unsigned(d) THEN "uint16"
        ELSE SignedOfWidth(Max({ IF Unsigned(d) THEN 2 * Width(d) ELSE Width(d) : d \in ds }))

\* Line 316: per row, the values of the columns in column order.
RowValues(frame) ==
    [ r \in 1..NRows |->
        [ dtype |-> RowDType(frame), vals |-> [ i \in DOMAIN frame |-> frame[i].vals[r] ] ] ]

\* Line 318 with the last column in place of the first.
LastColumn(frame) == frame[Len(frame)]

\* Line 318: result[result.columns[0]].
FirstColumn(frame) == frame[1]

NoColumn == [ name |-> 0, dtype |-> "object", vals |-> << >> ]

\* Lines 315 to 318.
ReturnValue(isArray, frame) ==
    IF isArray
    THEN [ shape |-> "array", column |-> NoColumn, rows |-> RowValues(frame) ]
    ELSE [ shape |-> "scalar", column |-> FirstColumn(frame), rows |-> << >> ]

NoValue == [ shape |-> "none", column |-> NoColumn, rows |-> << >> ]

\* Lines 288 to 318: the locals and the outcome of predict for a request of
\* kind `kind` (an array of it when isArray) whose predictor returned `raw`.
PredictCall(kind, isArray, raw) ==
    LET filtered == CoerceResult(kind, raw)
        result == IF kind = "string" /\ ~NoColumns(filtered)
                  THEN ApplymapStr(filtered) ELSE filtered
    IN  [ kind |-> kind, isArray |-> isArray, raw |-> raw, result |-> result,
          status |-> IF NoColumns(filtered) THEN "UnsupportedResult" ELSE "ok",
          ret |-> IF NoColumns(filtered) THEN NoValue ELSE ReturnValue(isArray, result) ]

UdfIdle ==
    [ kind |-> "double", isArray |-> FALSE, raw |-> [ tabular |-> TRUE, data |-> << >> ],
      result |-> << >>, status |-> "idle", ret |-> NoValue ]

\* One call of predict, up to its return statement: the requested type is of
\* kind `kind` (an array of it when isArray), the predictor returns `raw`.
Predict ==
    /\ udf.status = "idle"
    /\ \E kind \in Kinds, isArray \in BOOLEAN :
          \/ \E n \in 0..MaxCols : \E f \in [ 1..n -> ColumnChoices ] :
                udf' = PredictCall(kind, isArray, TableOf(f))
          \/ \E ch \in ColumnChoices :
                udf' = PredictCall(kind, isArray, SequenceOf(ch))
    /\ UNCHANGED << syspath, cwd, loadLog, loaderSrc, fs, saveLog, cache, loadCount,
                    invoked, pc, local, interleaved >>

\* The call has returned or raised: its locals are gone.
PredictReturn ==
    /\ udf.status # "idle"
    /\ udf' = UdfIdle
    /\ UNCHANGED << syspath, cwd, loadLog, loaderSrc, fs, saveLog, cache, loadCount,
                    invoked, pc, local, interleaved >>

(***************************************************************************)
(* The file system the loader reads. A path is a sequence of components;   *)
(* an absolute path starts with "/".                                       *)
(***************************************************************************)
Join(p, q) == p \o q

IsAbs(p) == Len(p) > 0 /\ p[1] = "/"

\* The stored artifacts: m1 and m2 carry code, m3 carries data only, m4 has no
\* python_function flavor, m5 declares an empty code entry.
Artifacts == { "m1", "m2", "m3", "m4", "m5" }

Root(m) == << "/", "models", m >>

\* model.flavors[FLAVOR_NAME] of the artifact's MLmodel file, as add_to_model
\* writes it: a key that was not given is absent.
HasFlavor(m) == m # "m4"

FlavorConf(m) ==
    CASE m = "m1" -> [ main |-> "mlflow.sklearn", hasCode |-> TRUE, code |-> << "code" >>,
                       hasData |-> TRUE, data |-> << "data", "model.pkl" >> ]
      [] m = "m2" -> [ main |-> "mlflow.keras", hasCode |-> TRUE, code |-> << "code" >>,
                       hasData |-> FALSE, data |-> << >> ]
      [] m = "m5" -> [ main |-> "mlflow.sklearn", hasCode |-> TRUE, code |-> << >>,
                       hasData |-> TRUE, data |-> << "data" >> ]
      [] OTHER -> [ main |-> "mlflow.sklearn", hasCode |-> FALSE, code |-> << >>,
                    hasData |-> TRUE, data |-> << "data" >> ]

\* os.listdir of a directory: the names in it, in the order the system lists them.
Listdir(dir) ==
    CASE dir = Join(Root("m1"), << "code" >>) -> << "a", "__pycache__", "notes", "b" >>
      [] dir = Join(Root("m2"), << "code" >>) -> << "b", "lib", "train.py" >>
      [] OTHER -> << >>

\* The directories of the file system (besides the roots): in a code directory
\* notes and train.py are plain files; /srv holds directories named b and notes.
Directories ==
    { Join(Root("m1"), << "code", n >>) : n \in { "a", "__pycache__", "b" } }
    \cup { Join(Root("m2"), << "code", n >>) : n \in { "b", "lib" } }
    \cup { << "/", "srv", "b" >>, << "/", "srv", "notes" >> }

\* The directories the process may work in.
WorkDirs == { << "/", "work" >>, Join(Root("m1"), << "code" >>), << "/", "srv" >> }

\* os.path.isdir(x): a relative x is resolved against the current working directory.
IsDir(x, wd) == (IF IsAbs(x) THEN x ELSE Join(wd, x)) \in Directories

\* os.path.abspath(x).
Abspath(x, wd) == IF IsAbs(x) THEN x ELSE Join(wd, x)

\* _get_code_dirs (lines 206 to 209); an absent dst_code_path is << >>. isdir is
\* asked of the bare name x, not of x under src_code_path.
GetCodeDirs(src_code_path, dst_code_path, wd) ==
    LET dst == IF dst_code_path = << >> THEN src_code_path ELSE dst_code_path
        kept == SelectSeq(Listdir(src_code_path),
                          LAMBDA x : IsDir(<< x >>, wd) /\ ~(x = "__pycache__"))
    IN  [ i \in DOMAIN kept |-> Join(dst, << kept[i] >>) ]

\* Line 171.
DeclaresCode(conf) == conf.hasCode /\ conf.code # << >>

\* Line 173 with the new entries put behind the old path, and with the old
\* path left out.
NewSysPathAppends(code_path, code_dirs, old) == old \o << code_path >> \o code_dirs

NewSysPathDropsOld(code_path, code_dirs, old) == << code_path >> \o code_dirs

\* Line 173: the new value of sys.path.
NewSysPath(code_path, code_dirs, old) == << code_path >> \o code_dirs \o old

\* Line 174.
DataPath(path, conf) == IF conf.hasData THEN Join(path, conf.data) ELSE path

InitPath == << << "/", "usr", "lib", "python3" >>, << "/", "usr", "lib", "site-packages" >> >>

\* load_pyfunc(path) of artifact m (lines 167 to 175), without a run_id. The
\* version check of line 170 only logs. The entry point that is called belongs
\* to the flavor; what it returns or raises is not modelled.
LoadPyfunc(m) ==
    /\ Len(loadLog) < MaxLoads
    /\ IF ~HasFlavor(m)
       THEN /\ loadLog' = Append(loadLog, [ artifact |-> m, cwd |-> cwd, before |-> syspath,
                                             status |-> "ConfigurationError",
                                             main |-> "", data_path |-> << >> ])
            /\ UNCHANGED syspath
       ELSE LET conf == FlavorConf(m)
                code_path == Join(Root(m), conf.code)
            IN  /\ syspath' = IF DeclaresCode(conf)
                              THEN NewSysPath(code_path, GetCodeDirs(code_path, << >>, cwd),
                                              syspath)
                              ELSE syspath
                /\ loadLog' = Append(loadLog, [ artifact |-> m, cwd |-> cwd,
                                                 before |-> syspath, status |-> "ok",
                                                 main |-> conf.main,
                                                 data_path |-> DataPath(Root(m), conf) ])
    /\ UNCHANGED << udf, cwd, loaderSrc, fs, saveLog, cache, loadCount, invoked, pc, local,
                    interleaved >>

\* os.chdir(d), by the program that uses the library.
Chdir(d) ==
    /\ d # cwd
    /\ cwd' = d
    /\ UNCHANGED << udf, syspath, loadLog, loaderSrc, fs, saveLog, cache, loadCount, invoked,
                    pc, local, interleaved >>

(***************************************************************************)
(* get_module_loader_src (lines 396 to 411) and the loader it emits (lines *)
(* 414 to 421). The emitted text is kept as the values of the template's   *)
(* three slots; update_path is the list of the paths x of the text's       *)
(* os.path.abspath('x') entries.                                           *)
(***************************************************************************)
DstPaths == { << "/", "deploy", "model" >>, << "model" >> }

NoLoader ==
    [ status |-> "none", src |-> "", dst |-> << >>, cwd |-> << >>, update_path |-> << >>,
      main |-> "", data_path |-> << >> ]

GetModuleLoaderSrc(m, dst_path, wd) ==
    IF ~HasFlavor(m)
    THEN [ NoLoader EXCEPT !.status = "Exception", !.src = m, !.dst = dst_path, !.cwd = wd ]
    ELSE LET conf == FlavorConf(m)
             src_code_path == Join(Root(m), conf.code)
             dst_code_path == Join(dst_path, conf.code)
         IN  [ status |-> "ok", src |-> m, dst |-> dst_path, cwd |-> wd,
               update_path |-> IF DeclaresCode(conf)
                               THEN << dst_code_path >>
                                    \o GetCodeDirs(src_code_path, dst_code_path, wd)
                               ELSE << >>,
               main |-> conf.main,
               data_path |-> DataPath(dst_path, conf) ]

GenLoader(m, dst_path) ==
    /\ loaderSrc' = GetModuleLoaderSrc(m, dst_path, cwd)
    /\ UNCHANGED << udf, syspath, cwd, loadLog, fs, saveLog, cache, loadCount, invoked, pc,
                    local, interleaved >>

\* The emitted load_pyfunc, run once in a fresh process of the deployment:
\* sys.path = [os.path.abspath(x), ...] + sys.path.
RunLoader ==
    /\ loaderSrc.status = "ok"
    /\ syspath = InitPath
    /\ syspath' = [ i \in DOMAIN loaderSrc.update_path |->
                      Abspath(loaderSrc.update_path[i], cwd) ] \o syspath
    /\ UNCHANGED << udf, cwd, loadLog, loaderSrc, fs, saveLog, cache, loadCount, invoked, pc,
                    local, interleaved >>

(***************************************************************************)
(* Two or more load_pyfunc calls running in threads of one process: line   *)
(* 173 evaluates [code_path] + _get_code_dirs(code_path), then reads       *)
(* sys.path and concatenates, then assigns sys.path. A thread switch may   *)
(* fall between any two of these.                                          *)
(***************************************************************************)
Threads == 1..NThreads

CodeArtifacts == { m \in Artifacts : HasFlavor(m) /\ DeclaresCode(FlavorConf(m)) }

NoLocal == [ artifact |-> "", code_path |-> << >>, code_dirs |-> << >>, value |-> << >> ]

\* The thread starts load_pyfunc of m and evaluates the left operand of line 173.
ThreadBegin(t, m) ==
    /\ pc[t] = "idle"
    /\ LET code_path == Join(Root(m), FlavorConf(m).code)
       IN  local' = [ local EXCEPT ![t] = [ artifact |-> m, code_path |-> code_path,
                                            code_dirs |-> GetCodeDirs(code_path, << >>, cwd),
                                            value |-> << >> ] ]
    /\ pc' = [ pc EXCEPT ![t] = "dirs" ]
    /\ UNCHANGED << udf, syspath, cwd, loadLog, loaderSrc, fs, saveLog, cache, loadCount,
                    invoked, interleaved >>

\* The thread reads sys.path and builds the new list.
ThreadRead(t) ==
    /\ pc[t] = "dirs"
    /\ local' = [ local EXCEPT ![t].value =
                    NewSysPath(local[t].code_path, local[t].code_dirs, syspath) ]
    /\ pc' = [ pc EXCEPT ![t] = "read" ]
    /\ interleaved' = (interleaved \/ \E u \in Threads \ { t } : pc[u] = "read")
    /\ UNCHANGED << udf, syspath, cwd, loadLog, loaderSrc, fs, saveLog, cache, loadCount,
                    invoked >>

\* The thread assigns sys.path.
ThreadAssign(t) ==
    /\ pc[t] = "read"
    /\ syspath' = local[t].value
    /\ pc' = [ pc EXCEPT ![t] = "done" ]
    /\ UNCHANGED << udf, cwd, loadLog, loaderSrc, fs, saveLog, cache, loadCount, invoked,
                    local, interleaved >>

(***************************************************************************)
(* save_model (lines 339 to 361).                                          *)
(***************************************************************************)
Dsts == { << "/", "out", "a" >>, << "/", "out", "b" >> }

\* What a caller passes: data_path ("" for None; missing.pkl does not exist),
\* code_path and conda_env ("" for None).
DataSources == { "", "model.pkl", "missing.pkl" }

CodeSources == { << >>, << "lib.py" >> }

EnvSources == { "", "env.yml" }

SourceExists(src) == src # "missing.pkl"

Absent == [ exists |-> FALSE, files |-> { }, conf |-> << >> ]

\* mlflow.utils.file_utils._copy_file_or_tree: the copy's path relative to dst.
CopyFileOrTree(src, dst_dir) == << dst_dir, src >>

\* add_to_model (lines 132 to 141): the flavor's entries, a key per argument given.
AddToModel(loader_module, data, code, env) ==
    << [ main |-> loader_module, hasCode |-> code # << >>, code |-> code,
         hasData |-> data # << >>, data |-> data, hasEnv |-> env # << >>, env |-> env ] >>

\* Line 339 without its test.
DestinationNeverExists(dst_path) == FALSE

\* Line 339.
DestinationExists(dst_path) == fs[dst_path].exists

\* The contents of dst_path after a save_model that got past line 341, and how
\* it ended: a copy of a source that does not exist raises and leaves what was
\* written before it.
SavedContents(old, loader_module, data_path, code_path, conda_env) ==
    IF data_path # "" /\ ~SourceExists(data_path)
    THEN [ status |-> "IOError", contents |-> [ old EXCEPT !.exists = TRUE ] ]
    ELSE LET data == IF data_path # "" THEN CopyFileOrTree(data_path, "data") ELSE << >>
             code == IF code_path # << >> THEN << "code" >> ELSE << >>
             env == IF conda_env # "" THEN << "mlflow_env.yml" >> ELSE << >>
             files == (IF data # << >> THEN { data } ELSE { })
                      \cup { CopyFileOrTree(code_path[i], "code") : i \in DOMAIN code_path }
                      \cup (IF env # << >> THEN { env } ELSE { })
                      \cup { << "MLmodel" >> }
         IN  [ status |-> "ok",
               contents |-> [ exists |-> TRUE, files |-> old.files \cup files,
                              conf |-> AddToModel(loader_module, data, code, env) ] ]

SaveModel(dst_path, loader_module, data_path, code_path, conda_env) ==
    /\ Len(saveLog) < MaxSaves
    /\ LET call == [ dst |-> dst_path, loader_module |-> loader_module,
                     data_path |-> data_path, code_path |-> code_path,
                     conda_env |-> conda_env ]
       IN  IF DestinationExists(dst_path)
           THEN /\ saveLog' = Append(saveLog, [ call |-> call, status |-> "DestinationExists" ])
                /\ UNCHANGED fs
           ELSE LET r == SavedContents(fs[dst_path], loader_module, data_path, code_path,
                                       conda_env)
                IN  /\ fs' = [ fs EXCEPT ![dst_path] = r.contents ]
                    /\ saveLog' = Append(saveLog, [ call |-> call, status |-> r.status ])
    /\ UNCHANGED << udf, syspath, cwd, loadLog, loaderSrc, cache, loadCount, invoked, pc,
                    local, interleaved >>

(***************************************************************************)
(* spark_udf: the per-worker cache of the loaded predictor (lines 280 to   *)
(* 283).                                                                   *)
(***************************************************************************)
Workers == 1..NWorkers

\* The references SparkModelCache.add_local_model returned (line 280), one per
\* spark_udf call.
Archives == { "archive1", "archive2" }

NoPredictor == [ archive |-> "", worker |-> 0, load |-> 0 ]

\* SparkModelCache.get_or_load(archive_path) in worker w: the cached predictor,
\* or a newly loaded one that is then cached. c is the cache, n the load counts.
GetOrLoad(c, n, w, a) ==
    IF c[w][a] # NoPredictor
    THEN [ cache |-> c, loads |-> n, model |-> c[w][a] ]
    ELSE LET p == [ archive |-> a, worker |-> w, load |-> n[w][a] + 1 ]
         IN  [ cache |-> [ c EXCEPT ![w][a] = p ], loads |-> [ n EXCEPT ![w][a] = @ + 1 ],
               model |-> p ]

\* Line 283 loading the predictor anew on every invocation.
PredictLoadsEveryTime(c, n, w, a) ==
    LET p == [ archive |-> a, worker |-> w, load |-> n[w][a] + 1 ]
    IN  [ cache |-> [ c EXCEPT ![w][a] = p ], loads |-> [ n EXCEPT ![w][a] = @ + 1 ],
          model |-> p ]

\* Line 283.
PredictModel(c, n, w, a) == GetOrLoad(c, n, w, a)

\* One invocation of predict for archive a in worker w, up to its line 283.
Invoke(w, a) ==
    /\ invoked[w][a] < MaxInvocations
    /\ LET r == PredictModel(cache, loadCount, w, a)
       IN  /\ cache' = r.cache
           /\ loadCount' = r.loads
    /\ invoked' = [ invoked EXCEPT ![w][a] = @ + 1 ]
    /\ UNCHANGED << udf, syspath, cwd, loadLog, loaderSrc, fs, saveLog, pc, local,
                    interleaved >>

(***************************************************************************)
(* The specifications.                                                     *)
(***************************************************************************)
Init ==
    /\ udf = UdfIdle
    /\ syspath = InitPath
    /\ cwd = << "/", "work" >>
    /\ loadLog = << >>
    /\ loaderSrc = NoLoader
    /\ fs = [ d \in Dsts |-> Absent ]
    /\ saveLog = << >>
    /\ cache = [ w \in Workers |-> [ a \in Archives |-> NoPredictor ] ]
    /\ loadCount = [ w \in Workers |-> [ a \in Archives |-> 0 ] ]
    /\ invoked = [ w \in Workers |-> [ a \in Archives |-> 0 ] ]
    /\ pc = [ t \in Threads |-> "idle" ]
    /\ local = [ t \in Threads |-> NoLocal ]
    /\ interleaved = FALSE

NextPredict ==
    \/ Predict
    \/ PredictReturn

NextLoad ==
    \/ \E m \in Artifacts : LoadPyfunc(m)
    \/ \E d \in WorkDirs : Chdir(d)

NextGen ==
    \/ \E m \in Artifacts, dst_path \in DstPaths : GenLoader(m, dst_path)
    \/ \E d \in WorkDirs : Chdir(d)
    \/ RunLoader

NextSave ==
    \E dst_path \in Dsts, data_path \in DataSources, code_path \in CodeSources,
       conda_env \in EnvSources :
        SaveModel(dst_path, "mlflow.sklearn", data_path, code_path, conda_env)

NextCache == \E w \in Workers, a \in Archives : Invoke(w, a)

NextConc ==
    \/ \E t \in Threads, m \in CodeArtifacts : ThreadBegin(t, m)
    \/ \E t \in Threads : ThreadRead(t)
    \/ \E t \in Threads : ThreadAssign(t)
    \/ \E d \in WorkDirs : Chdir(d)

SpecPredict == Init /\ [][NextPredict]_vars

SpecLoad == Init /\ [][NextLoad]_vars

SpecGen == Init /\ [][NextGen]_vars

SpecSave == Init /\ [][NextSave]_vars

SpecCache == Init /\ [][NextCache]_vars

SpecConc == Init /\ [][NextConc]_vars

Next == NextPredict \/ NextLoad \/ NextGen \/ NextSave \/ NextCache \/ NextConc

Spec == Init /\ [][Next]_vars

(***************************************************************************)
(* The claims about predict, checked under SpecPredict.                    *)
(***************************************************************************)
Called == udf.status # "idle"

FitsInt32(n) == n \in { "w8", "w16", "w32" }

IsIntegerDType(d) == d \in { "int8", "uint8", "int16", "uint16", "int32", "int64" }

AllFitInt32(col) ==
    IsIntegerDType(col.dtype) /\ \A r \in DOMAIN col.vals : FitsInt32(col.vals[r].num)

\* The columns of a table, by name, in column order.
Names(frame) == [ i \in DOMAIN frame |-> frame[i].name ]

\* C1 as stated: under an integer-32 request a tabular result keeps exactly
\* the integer columns all of whose values fit in int32, each cast to int32; a
\* 64-bit column of small values survives.
C1_SurvivorsFitInt32 ==
    (Called /\ udf.kind = "int" /\ udf.raw.tabular)
        => udf.result = Astype(SelectSeq(udf.raw.data, AllFitInt32), "int32")

\* C1 as amended: under an integer-32 request a tabular result keeps exactly
\* the columns whose dtype is int8, uint8, int16, uint16 or int32, in column
\* order, each cast to int32 with its values unchanged; a 64-bit column is
\* excluded whatever its values, and so is every non-integer column.
C1_SurvivorsByDType ==
    (Called /\ udf.kind = "int" /\ udf.raw.tabular)
        => LET raw == udf.raw.data
               res == udf.result
               keep == { i \in DOMAIN raw :
                           raw[i].dtype \in { "int8", "uint8", "int16", "uint16", "int32" } }
           IN  /\ Len(res) = Cardinality(keep)
               /\ \A j \in DOMAIN res :
                    /\ res[j].name \in keep
                    /\ res[j].dtype = "int32"
                    /\ \A r \in 1..NRows :
                         res[j].vals[r] = [ num |-> raw[res[j].name].vals[r].num,
                                            isStr |-> FALSE ]
               /\ \A j, k \in DOMAIN res : j < k => res[j].name < res[k].name

\* An integer-32 request met a table with a 64-bit column of small values
\* and a 16-bit column: only the latter is left.
C1_Witness ==
    /\ Called /\ udf.kind = "int" /\ udf.raw.tabular
    /\ \E i, k \in DOMAIN udf.raw.data :
         /\ udf.raw.data[i].dtype = "int64" /\ AllFitInt32(udf.raw.data[i])
         /\ udf.raw.data[k].dtype = "int16"
         /\ \E f \in DOMAIN udf.raw.data : udf.raw.data[f].dtype = "float64"
         /\ Names(udf.result) = << k >>

\* C2: a result that is not tabular is wrapped into a one-column table and
\* then filtered and cast as a table that the predictor returned as such: the
\* call ends as the same call on the wrapped table does.
C2_WrappedIsFilteredAndCast ==
    (Called /\ ~udf.raw.tabular)
        => LET same == PredictCall(udf.kind, udf.isArray,
                                   [ tabular |-> TRUE, data |-> WrapFrame(udf.raw.data) ])
           IN  /\ udf.status = same.status
               /\ udf.result = same.result
               /\ udf.ret = same.ret

\* The columns of a table that the filter of a kind keeps.
Survivors(kind, frame) == CoerceResult(kind, [ tabular |-> TRUE, data |-> frame ])

\* C5: the call fails with the unsupported-result error exactly when no
\* column of the (wrapped) result survives the filter of the requested kind,
\* and a string request never fails with it.
C5_FailsIffNoSurvivor ==
    Called
        => LET frame == IF udf.raw.tabular THEN udf.raw.data ELSE WrapFrame(udf.raw.data)
           IN  /\ (udf.status = "UnsupportedResult") <=> (Survivors(udf.kind, frame) = << >>)
               /\ udf.kind = "string" => udf.status # "UnsupportedResult"

\* C6: a scalar request returns the surviving column that is first in the
\* result's column order; an array request returns per row the values of all
\* surviving columns, in column order, and of no other column.
C6_LeftmostOrAllInOrder ==
    (Called /\ udf.status = "ok")
        => LET kept == Names(udf.result)
               first == CHOOSE n \in Range(kept) : \A o \in Range(kept) : n <= o
           IN  /\ \A j, k \in DOMAIN kept : j < k => kept[j] < kept[k]
               /\ ~udf.isArray =>
                    /\ udf.ret.shape = "scalar"
                    /\ udf.ret.column.name = first
                    /\ udf.ret.column = udf.result[1]
               /\ udf.isArray =>
                    /\ udf.ret.shape = "array"
                    /\ Len(udf.ret.rows) = NRows
                    /\ \A r \in 1..NRows :
                         /\ Len(udf.ret.rows[r].vals) = Len(kept)
                         /\ \A j \in DOMAIN kept :
                              udf.ret.rows[r].vals[j] = udf.result[j].vals[r]

\* An array-of-float64 request met three numeric columns and a string column:
\* the rows hold three float64 values.
C6_Witness ==
    /\ Called /\ udf.status = "ok" /\ udf.isArray /\ udf.kind = "double" /\ udf.raw.tabular
    /\ Len(udf.raw.data) = 4
    /\ udf.raw.data[2].dtype = "object"
    /\ \A i \in { 1, 3, 4 } : udf.raw.data[i].dtype # "object"
    /\ Names(udf.result) = << 1, 3, 4 >>
    /\ \A r \in 1..NRows :
         Len(udf.ret.rows[r].vals) = 3 /\ udf.ret.rows[r].dtype = "float64"

(***************************************************************************)
(* The claims about load_pyfunc, checked under SpecLoad.                   *)
(***************************************************************************)
CodeDir(m) == Join(Root(m), FlavorConf(m).code)

CodeBearing(m) == HasFlavor(m) /\ DeclaresCode(FlavorConf(m))

\* The subdirectories of a directory, in listing order, but for __pycache__.
Subdirectories(dir) ==
    SelectSeq(Listdir(dir),
              LAMBDA x : Join(dir, << x >>) \in Directories /\ x # "__pycache__")

IsSuffix(s, t) == Len(s) <= Len(t) /\ SubSeq(t, Len(t) - Len(s) + 1, Len(t)) = s

LastLoad == loadLog[Len(loadLog)]

\* C3: after a load of an artifact that declares a code directory, the search
\* path is the code directory, then its subdirectories in listing order
\* (never __pycache__, never a plain file), then the previous search path,
\* whatever the current working directory is.
C3_PrefixIsCodeDirAndSubdirs ==
    (Len(loadLog) > 0 /\ CodeBearing(LastLoad.artifact))
        => LET dir == CodeDir(LastLoad.artifact)
               subs == Subdirectories(dir)
           IN  syspath = << dir >> \o [ i \in DOMAIN subs |-> Join(dir, << subs[i] >>) ]
                         \o LastLoad.before

\* The search path after the i-th load.
PathAfter(i) == IF i = Len(loadLog) THEN syspath ELSE loadLog[i + 1].before

\* C9: after any sequence of loads the search path is the prefixes injected by
\* the code-bearing loads, latest first, followed by the initial search path:
\* every code-bearing load puts its code directory first and keeps the path it
\* found, in order, behind what it adds (a repeated load adds again); a load
\* without a code entry, or one that fails, leaves the path as it found it.
C9_LatestCodeFirst ==
    /\ loadLog = << >> => syspath = InitPath
    /\ \A i \in DOMAIN loadLog :
         /\ i = 1 => loadLog[i].before = InitPath
         /\ IF CodeBearing(loadLog[i].artifact)
            THEN /\ PathAfter(i)[1] = CodeDir(loadLog[i].artifact)
                 /\ Len(PathAfter(i)) > Len(loadLog[i].before)
                 /\ IsSuffix(loadLog[i].before, PathAfter(i))
            ELSE PathAfter(i) = loadLog[i].before

\* m1, then m2, then m3 (no code) were loaded: m2's code directory is first,
\* m1's is behind it and the initial path is last.
C9_Witness ==
    /\ Len(loadLog) = 3
    /\ loadLog[1].artifact = "m1" /\ loadLog[2].artifact = "m2" /\ loadLog[3].artifact = "m3"
    /\ syspath[1] = CodeDir("m2")
    /\ \E k \in 2..Len(syspath) : syspath[k] = CodeDir("m1")
    /\ IsSuffix(InitPath, syspath)

(***************************************************************************)
(* The claim about get_module_loader_src, checked under SpecGen.           *)
(***************************************************************************)
\* C7: the emitted loader prepends the code directory under dst_path and one
\* entry per subdirectory of the original artifact's code directory (same
\* names, same order, no __pycache__) when a code path is declared and
\* nothing otherwise, passes dst_path joined with the data path (dst_path when
\* no data is declared) to the same loader_module, and there is no loader but
\* an error when the flavor is absent.
C7_LoaderMirrorsLoad ==
    loaderSrc.status # "none"
        => IF ~HasFlavor(loaderSrc.src)
           THEN loaderSrc.status = "Exception"
           ELSE LET conf == FlavorConf(loaderSrc.src)
                    dir == Join(loaderSrc.dst, conf.code)
                    subs == Subdirectories(CodeDir(loaderSrc.src))
                IN  /\ loaderSrc.status = "ok"
                    /\ loaderSrc.main = conf.main
                    /\ loaderSrc.data_path = IF conf.hasData
                                             THEN Join(loaderSrc.dst, conf.data)
                                             ELSE loaderSrc.dst
                    /\ loaderSrc.update_path =
                         IF CodeBearing(loaderSrc.src)
                         THEN << dir >> \o [ i \in DOMAIN subs |-> Join(dir, << subs[i] >>) ]
                         ELSE << >>

(***************************************************************************)
(* The claim about save_model, checked under SpecSave.                     *)
(***************************************************************************)
\* What a save_model call that ran to its end leaves at its destination.
Exported(call) ==
    [ exists |-> TRUE,
      files |-> { << "MLmodel" >> }
                \cup (IF call.data_path # "" THEN { << "data", call.data_path >> } ELSE { })
                \cup { << "code", call.code_path[i] >> : i \in DOMAIN call.code_path }
                \cup (IF call.conda_env # "" THEN { << "mlflow_env.yml" >> } ELSE { }),
      conf |-> << [ main |-> call.loader_module,
                    hasCode |-> call.code_path # << >>,
                    code |-> IF call.code_path # << >> THEN << "code" >> ELSE << >>,
                    hasData |-> call.data_path # "",
                    data |-> IF call.data_path # "" THEN << "data", call.data_path >>
                             ELSE << >>,
                    hasEnv |-> call.conda_env # "",
                    env |-> IF call.conda_env # "" THEN << "mlflow_env.yml" >>
                            ELSE << >> ] >> ]

\* C4: export is create-only. A destination is created by at most one save,
\* the first one aimed at it; every later save to it fails with the
\* destination-exists error and changes nothing, so the destination holds
\* what the save that created it wrote: the whole export when that save
\* succeeded.
C4_CreateOnly ==
    \A d \in Dsts :
        LET aimed == { i \in DOMAIN saveLog : saveLog[i].call.dst = d }
            created == { i \in aimed : saveLog[i].status # "DestinationExists" }
        IN  /\ \A i \in created : \A j \in aimed : j >= i
            /\ \A i \in created : \A j \in aimed :
                 j > i => saveLog[j].status = "DestinationExists"
            /\ aimed = { } => fs[d] = Absent
            /\ aimed # { } => created # { }
            /\ \A i \in created :
                 IF saveLog[i].status = "ok"
                 THEN fs[d] = Exported(saveLog[i].call)
                 ELSE fs[d] = [ Absent EXCEPT !.exists = TRUE ]

\* A destination was exported to and then twice more, with other arguments:
\* both later saves failed and the first export is as it was written.
C4_Witness ==
    /\ Len(saveLog) = 3
    /\ \A i \in 1..3 : saveLog[i].call.dst = << "/", "out", "a" >>
    /\ saveLog[1].status = "ok"
    /\ saveLog[2].status = "DestinationExists" /\ saveLog[3].status = "DestinationExists"
    /\ saveLog[1].call.data_path = "model.pkl" /\ saveLog[2].call.data_path = ""
    /\ saveLog[3].call.code_path # saveLog[1].call.code_path
    /\ fs[<< "/", "out", "a" >>] = Exported(saveLog[1].call)

(***************************************************************************)
(* The claim about the per-worker cache, checked under SpecCache.          *)
(***************************************************************************)
\* C8: in every worker and for every archive the predictor is loaded exactly
\* once, by the worker's first invocation; later invocations find that same
\* predictor in the cache, and a worker that has not invoked has loaded
\* nothing, whatever the other workers did.
C8_LoadedOncePerWorker ==
    \A w \in Workers, a \in Archives :
        IF invoked[w][a] = 0
        THEN loadCount[w][a] = 0 /\ cache[w][a] = NoPredictor
        ELSE loadCount[w][a] = 1 /\ cache[w][a] = [ archive |-> a, worker |-> w, load |-> 1 ]

\* Worker 1 invoked predict for archive1 several times and for archive2 once;
\* worker 2 never invoked it for archive1.
C8_Witness ==
    /\ invoked[1]["archive1"] = MaxInvocations /\ loadCount[1]["archive1"] = 1
    /\ invoked[1]["archive2"] = 1 /\ loadCount[1]["archive2"] = 1
    /\ invoked[2]["archive1"] = 0 /\ cache[2]["archive1"] = NoPredictor
    /\ invoked[2]["archive2"] > 1

(***************************************************************************)
(* The claim about concurrent loads, checked under SpecConc.               *)
(***************************************************************************)
AllDone == \A t \in Threads : pc[t] = "done"

\* C10: the search-path update of load is a read followed by an assignment.
\* When the updates of the concurrent loads are serialized (no thread reads
\* the search path between another thread's read and its assignment), the
\* final search path holds the code directory of every load; the witness is
\* an interleaving that ends without the code directory of one of them.
C10_SerializedKeepsAll ==
    (AllDone /\ ~interleaved)
        => \A t \in Threads : \E k \in DOMAIN syspath : syspath[k] = local[t].code_path

\* Two loads interleaved and the code directory of one of them is lost.
C10_Witness ==
    /\ AllDone /\ interleaved
    /\ \E t \in Threads : \A k \in DOMAIN syspath : syspath[k] # local[t].code_path
    /\ \E t \in Threads : syspath[1] = local[t].code_path

====
